---------------------------- MODULE Spec2Model ----------------------------
(***************************************************************************)
(* XBufVector<T> (faiss/XBufVector.h): a vector that either aliases a      *)
(* read-only buffer_ of T items or forwards to an owned std::vector<T> v_, *)
(* and the X_READVECTOR / X_READXBVECTOR load macros that bind it to the   *)
(* memory of a BufIOReader.                                                *)
(*                                                                         *)
(* Memory is modelled at the byte level: mem is the region of bytes the    *)
(* source holds after a length header; a pointer is a region and a byte    *)
(* offset; an element of T is W consecutive bytes (little endian).         *)
(***************************************************************************)
EXTENDS Integers, Sequences, FiniteSets, TLC

VARIABLES
    buffer_,    \* T* buffer_: the aliased memory (a pointer)
    size_,      \* std::size_t size_
    capacity_,  \* std::size_t capacity_
    v_,         \* std::vector<T>* v_: 0 is nullptr, else an index into heap
    heap,       \* the std::vector<T> objects allocated so far: their contents
    other,      \* the caller's std::vector<T> handed to swap()
    mem,        \* the bytes of the source region (read-only for the container)
    W,          \* sizeof(T) of this instantiation
    f,          \* the IOReader of the last load: its kind, header and position
    ret,        \* the outcome of the last call: what it returned or signalled
    nops,       \* number of mutating calls made so far
    everOwned,  \* history: the container has been in Owned mode
    ref,        \* reference: a plain std::vector<T> given the same calls
    life,       \* lifetime: destruction, a copied instance, the deletes done
    capi        \* the index behind the C wrappers and their last call

vars ==
    <<buffer_, size_, capacity_, v_, heap, other, mem, W, f, ret, nops, everOwned,
      ref, life, capi>>

---------------------------------------------------------------------------
(* Bounds of the model *)

MemLen == 4      \* bytes in the source region
MaxOps == 2      \* mutating calls per behaviour
MaxResize == 2   \* largest n given to resize()

(* sizeof(T) of the instantiations explored, e.g. uint8_t and uint16_t *)
ElemWidths == {1, 2}

(* Values a read of memory outside every object may yield *)
Garbage == {0, 255}

---------------------------------------------------------------------------
(* Pointers *)

NULL == [region |-> "null", off |-> 0]
SrcPtr(o) == [region |-> "src", off |-> o]
HeapPtr(id) == [region |-> "heap", off |-> id]

(* The bytes of the region are distinct, so that an element read at the    *)
(* wrong offset or in the wrong order is seen.                             *)
Mems == { [i \in 1..MemLen |-> 10 + i] }

(* The T read at byte offset o of the region: W bytes, little endian *)
Decode(m, o, w) ==
    IF w = 1 THEN m[o + 1] ELSE m[o + 1] + 256 * m[o + 2]

(* Do the w bytes at offset o lie inside the region? *)
InRegion(m, o, w) == o >= 0 /\ o + w <= Len(m)

(* The outcomes of a call: ok with a value, an exception, a failed         *)
(* assertion (abort), or a crash. *)
Ok(x) == [kind |-> "ok", val |-> x]
Throw == [kind |-> "throw", val |-> 0]
AssertFail == [kind |-> "assert", val |-> 0]
Crash == [kind |-> "crash", val |-> 0]

(* Undefined behaviour on a read: the process dies or some value comes back *)
UB == {Crash} \cup {Ok(g) : g \in Garbage}

(* buffer_[i] on the container c *)
BufRead(c, i) ==
    IF c.buffer_.region = "src" /\ InRegion(c.mem, c.buffer_.off + i * c.W, c.W)
    THEN {Ok(Decode(c.mem, c.buffer_.off + i * c.W, c.W))}
    ELSE UB


---------------------------------------------------------------------------
(* The container as a value: the fields of one XBufVector<T> together with *)
(* the heap its v_ points into and the memory its buffer_ points into.     *)

Cur ==
    [buffer_ |-> buffer_, size_ |-> size_, capacity_ |-> capacity_, v_ |-> v_,
     heap |-> heap, mem |-> mem, W |-> W]

(* XBufVector(): Empty *)
CtorDefault(m, w) ==
    [buffer_ |-> NULL, size_ |-> 0, capacity_ |-> 0, v_ |-> 0,
     heap |-> <<>>, mem |-> m, W |-> w]

(* XBufVector(T* buffer, size, capacity): Aliased *)
CtorAlias(m, w, buffer, size, capacity) ==
    [buffer_ |-> buffer, size_ |-> size, capacity_ |-> capacity, v_ |-> 0,
     heap |-> <<>>, mem |-> m, W |-> w]

(* XBufVector(std::vector<T>* v): Owned, adopting v *)
CtorAdopt(m, w, v) ==
    [buffer_ |-> NULL, size_ |-> 0, capacity_ |-> 0, v_ |-> 1,
     heap |-> <<v>>, mem |-> m, W |-> w]

(* The three modes, read off the fields as the code discriminates them *)
Owned(c) == c.v_ # 0
Aliased(c) == c.v_ = 0 /\ c.buffer_ # NULL
Empty(c) == c.v_ = 0 /\ c.buffer_ = NULL

(* The owned vector *v_ *)
Vec(c) == c.heap[c.v_]

(* The elements the container shows, in order; an element of the alias    *)
(* that lies outside the source region has no value and is shown as 0.     *)
Contents(c) ==
    IF c.v_ # 0 THEN Vec(c)
    ELSE [i \in 1..c.size_ |->
             IF c.buffer_.region = "src"
                 /\ InRegion(c.mem, c.buffer_.off + (i - 1) * c.W, c.W)
             THEN Decode(c.mem, c.buffer_.off + (i - 1) * c.W, c.W)
             ELSE 0]

(* Is every element of the alias inside the source region? *)
AliasInRegion(c) ==
    c.size_ = 0 \/
    (c.buffer_.region = "src" /\ c.buffer_.off >= 0
        /\ c.buffer_.off + c.size_ * c.W <= Len(c.mem))

(* The copies mutate()'s loop can produce: element i is buffer_[i]; an     *)
(* element outside the region is an undefined read.                        *)
CopiedVecs(c) ==
    { [i \in 1..c.size_ |->
          IF c.buffer_.region = "src"
              /\ InRegion(c.mem, c.buffer_.off + (i - 1) * c.W, c.W)
          THEN Decode(c.mem, c.buffer_.off + (i - 1) * c.W, c.W)
          ELSE g[i]] : g \in [1..c.size_ -> Garbage] }

(* mutate() without its copy loop: the new vector keeps its zeroes *)
mutate_nocopy(c) ==
    IF c.v_ = 0
    THEN { [c |-> [c EXCEPT !.heap = Append(c.heap, [i \in 1..c.size_ |-> 0]),
                            !.v_ = Len(c.heap) + 1,
                            !.buffer_ = NULL, !.size_ = 0, !.capacity_ = 0],
            r |-> Ok(0)] }
    ELSE { [c |-> [c EXCEPT !.buffer_ = NULL, !.size_ = 0, !.capacity_ = 0],
            r |-> Ok(0)] }

(* mutate() without the reset of buffer_, size_ and capacity_ *)
mutate_keepalias(c) ==
    IF c.v_ = 0
    THEN { [c |-> [c EXCEPT !.heap = Append(c.heap, vec),
                            !.v_ = Len(c.heap) + 1],
            r |-> Ok(0)] : vec \in CopiedVecs(c) }
    ELSE { [c |-> c, r |-> Ok(0)] }

(* void mutate(): the results are pairs of the container after the call    *)
(* and the call's outcome.                                                 *)
mutate(c) ==
    IF c.v_ = 0
    THEN { [c |-> [c EXCEPT !.heap = Append(c.heap, vec),
                            !.v_ = Len(c.heap) + 1,
                            !.buffer_ = NULL, !.size_ = 0, !.capacity_ = 0],
            r |-> Ok(0)] : vec \in CopiedVecs(c) }
         \cup (IF AliasInRegion(c) THEN {} ELSE {[c |-> c, r |-> Crash]})
    ELSE { [c |-> [c EXCEPT !.buffer_ = NULL, !.size_ = 0, !.capacity_ = 0],
            r |-> Ok(0)] }

(* setBuffer() that forgets to store the pointer *)
setBuffer_nobuffer(c, buffer, size, capacity) ==
    IF c.v_ # 0
    THEN [c |-> c, r |-> Throw]
    ELSE [c |-> [c EXCEPT !.size_ = size, !.capacity_ = capacity], r |-> Ok(0)]

(* setBuffer() that tests v_ after its assignments *)
setBuffer_latecheck(c, buffer, size, capacity) ==
    [c |-> [c EXCEPT !.buffer_ = buffer, !.size_ = size, !.capacity_ = capacity],
     r |-> IF c.v_ # 0 THEN Throw ELSE Ok(0)]

(* void setBuffer(uint8_t* buffer, size, capacity) *)
setBuffer(c, buffer, size, capacity) ==
    IF c.v_ # 0
    THEN [c |-> c, r |-> Throw]
    ELSE [c |-> [c EXCEPT !.buffer_ = buffer, !.size_ = size,
                          !.capacity_ = capacity],
          r |-> Ok(0)]

(* std::vector<T>::at *)
VecAt(vec, index) ==
    IF index < Len(vec) THEN {Ok(vec[index + 1])} ELSE {Throw}

(* std::size_t size() const *)
size(c) == IF c.v_ # 0 THEN Len(Vec(c)) ELSE c.size_

(* bool empty() const *)
empty(c) == IF c.v_ # 0 THEN Len(Vec(c)) = 0 ELSE c.size_ = 0

(* std::size_t capacity() const: the owned vector's capacity is at least   *)
(* its size and otherwise up to the library.                               *)
capacity(c) ==
    IF c.v_ # 0 THEN {Len(Vec(c)), Len(Vec(c)) + 1} ELSE {c.capacity_}

(* at() whose bound test lets index = size_ through *)
at_gt(c, index) ==
    IF c.v_ # 0 THEN VecAt(Vec(c), index)
    ELSE IF index > c.size_ THEN {Throw}
    ELSE BufRead(c, index)

(* T& at(index) *)
at(c, index) ==
    IF c.v_ # 0 THEN VecAt(Vec(c), index)
    ELSE IF index >= c.size_ THEN {Throw}
    ELSE BufRead(c, index)

(* T& operator[](index): the assertion aborts a debug build and is absent  *)
(* from an NDEBUG build, which then reads buffer_[index].                  *)
index_op(c, index) ==
    IF c.v_ # 0 THEN VecAt(Vec(c), index)
    ELSE IF index < c.size_ THEN BufRead(c, index)
    ELSE {AssertFail} \cup BufRead(c, index)

(* T* data() *)
data(c) == IF c.v_ # 0 THEN HeapPtr(c.v_) ELSE c.buffer_

(* T& front(): it never looks at v_ *)
front(c) ==
    IF c.size_ > 0 THEN BufRead(c, 0)
    ELSE {AssertFail} \cup BufRead(c, 0)

(* T& back(): it never looks at v_; with size_ = 0 the index size_ - 1     *)
(* wraps around and the read is undefined.                                 *)
back(c) ==
    IF c.size_ > 0 THEN BufRead(c, c.size_ - 1)
    ELSE {AssertFail} \cup UB


(* std::vector<T>::resize(n, val) *)
VecResize(vec, n, val) ==
    [i \in 1..n |-> IF i <= Len(vec) THEN vec[i] ELSE val]

(* The container with its owned vector replaced *)
WithVec(c, vec) == [c EXCEPT !.heap[c.v_] = vec]

(* void resize(size_t n, T val = T()) *)
resize(c, n, val) ==
    { IF m.r.kind # "ok" THEN m
      ELSE [c |-> WithVec(m.c, VecResize(Vec(m.c), n, val)), r |-> Ok(0)]
      : m \in mutate(c) }

(* void push_back(const T& value) *)
push_back(c, value) ==
    { IF m.r.kind # "ok" THEN m
      ELSE [c |-> WithVec(m.c, Append(Vec(m.c), value)), r |-> Ok(0)]
      : m \in mutate(c) }

(* void pop_back(): std::vector<T>::pop_back on an empty vector is         *)
(* undefined; the process dies or goes on with a vector the model does not *)
(* follow.                                                                 *)
pop_back(c) ==
    UNION { IF m.r.kind # "ok" THEN {m}
            ELSE IF Len(Vec(m.c)) = 0
                 THEN {[c |-> m.c, r |-> Crash],
                       [c |-> m.c, r |-> [kind |-> "corrupt", val |-> 0]]}
            ELSE {[c |-> WithVec(m.c, SubSeq(Vec(m.c), 1, Len(Vec(m.c)) - 1)),
                   r |-> Ok(0)]}
            : m \in mutate(c) }

(* swap() that copies the caller's vector and gives nothing back *)
swap_keep(c, o) ==
    { IF m.r.kind # "ok" THEN [c |-> m.c, r |-> m.r, other |-> o]
      ELSE [c |-> WithVec(m.c, o), r |-> Ok(0), other |-> o]
      : m \in mutate(c) }

(* void swap(std::vector<T> &other): the results carry the caller's vector *)
swap(c, o) ==
    { IF m.r.kind # "ok" THEN [c |-> m.c, r |-> m.r, other |-> o]
      ELSE [c |-> WithVec(m.c, o), r |-> Ok(0), other |-> Vec(m.c)]
      : m \in mutate(c) }

(* clear() whose alias branch forgets size_ *)
clear_keepsize(c) ==
    IF c.v_ # 0
    THEN [c EXCEPT !.heap[c.v_] = <<>>, !.v_ = 0]
    ELSE [c EXCEPT !.buffer_ = NULL, !.capacity_ = 0]

(* void clear(): the owned branch empties *v_ and drops the pointer to it, *)
(* leaving buffer_, size_ and capacity_ as they are.                       *)
clear(c) ==
    IF c.v_ # 0
    THEN [WithVec(c, <<>>) EXCEPT !.v_ = 0]
    ELSE [c EXCEPT !.buffer_ = NULL, !.size_ = 0, !.capacity_ = 0]


---------------------------------------------------------------------------
(* size_t arithmetic of the load macros.  A 64-bit size_t is kept as three *)
(* limbs, value = a * 2^40 + b * 2^20 + c, so that the ceiling 2^40 and a  *)
(* negative header read as unsigned keep their true magnitude.             *)

Limb == 2^20
TopLimb == 2^24

U64(a, b, c) == [a |-> a, b |-> b, c |-> c]
U64Of(n) == U64(0, 0, n)
U64Max == U64(TopLimb - 1, Limb - 1, Limb - 1)

(* x < y *)
U64Less(x, y) ==
    \/ x.a < y.a
    \/ x.a = y.a /\ x.b < y.b
    \/ x.a = y.a /\ x.b = y.b /\ x.c < y.c

(* size *= 4, modulo 2^64 *)
U64Mul4(x) ==
    LET c4 == x.c * 4
        b4 == x.b * 4 + (c4 \div Limb)
        a4 == x.a * 4 + (b4 \div Limb)
    IN U64(a4 % TopLimb, b4 % Limb, c4 % Limb)

(* A size that is small enough to be a length in this model *)
IsSmall(x) == x.a = 0 /\ x.b = 0
ToNat(x) == x.c

(* uint64_t{1} << 40 *)
Ceiling == U64(1, 0, 0)

(* The check with <= in place of < *)
SizeCheck_le(sz) == ~U64Less(Ceiling, sz)

(* size >= 0 && size < (uint64_t{1} << 40): the first conjunct holds of    *)
(* every size_t.                                                           *)
SizeCheck(sz) == ~U64Less(sz, U64Of(0)) /\ U64Less(sz, Ceiling)

(* The reader before a load: positioned at the length header *)
NoRequest == U64(-1, 0, 0)
Reader(direct, hdr) ==
    [direct |-> direct, hdr |-> hdr, rp |-> 0, requested |-> NoRequest,
     ptr |-> NULL]

(* reader->readPointer(n): a pointer to the next n bytes of the source,    *)
(* which the reader then skips; a source holding fewer bytes fails.        *)
readPointer(fr, m, n) ==
    IF IsSmall(n) /\ fr.rp + ToNat(n) <= Len(m)
    THEN [f |-> [fr EXCEPT !.requested = n, !.ptr = SrcPtr(fr.rp),
                           !.rp = fr.rp + ToNat(n)],
          r |-> Ok(0)]
    ELSE [f |-> [fr EXCEPT !.requested = n], r |-> Throw]

(* READANDCHECK(vec.data(), n) of the sequential read: n items of W bytes  *)
(* are copied into the owned vector; fewer than n items fail the check.    *)
ReadItems(c, fr, n) ==
    LET avail == (Len(c.mem) - fr.rp) \div c.W
        got == IF n <= avail THEN n ELSE avail
        vec == [i \in 1..n |->
                   IF i <= got THEN Decode(c.mem, fr.rp + (i - 1) * c.W, c.W)
                   ELSE Vec(c)[i]]
    IN [c |-> WithVec(c, vec),
        f |-> [fr EXCEPT !.rp = fr.rp + got * c.W],
        r |-> IF got = n THEN Ok(0) ELSE Throw]

(* The sequential tail shared by READVECTOR and READXBVECTOR:              *)
(* (vec).resize(size); READANDCHECK((vec).data(), size)                    *)
ResizeAndRead(c, fr, sz) ==
    { IF m.r.kind # "ok" THEN [c |-> m.c, f |-> fr, r |-> m.r]
      ELSE ReadItems(m.c, fr, ToNat(sz))
      : m \in resize(c, ToNat(sz), 0) }

(* READVECTOR(vec) of io_macros.h *)
READVECTOR(c, fr) ==
    IF ~SizeCheck(fr.hdr) THEN {[c |-> c, f |-> fr, r |-> Throw]}
    ELSE ResizeAndRead(c, fr, fr.hdr)

(* READXBVECTOR(vec) of io_macros.h *)
READXBVECTOR(c, fr) ==
    IF ~SizeCheck(fr.hdr) THEN {[c |-> c, f |-> fr, r |-> Throw]}
    ELSE ResizeAndRead(c, fr, U64Mul4(fr.hdr))

(* The direct tail of both macros:                                         *)
(* (vec).setBuffer(reader->readPointer(size), size, size)                  *)
BindPointer(c, fr, sz) ==
    LET p == readPointer(fr, c.mem, sz) IN
    IF p.r.kind # "ok" THEN [c |-> c, f |-> p.f, r |-> p.r]
    ELSE LET b == setBuffer(c, p.f.ptr, ToNat(sz), ToNat(sz)) IN
         [c |-> b.c, f |-> p.f, r |-> b.r]

(* X_READVECTOR without its direct branch: every source is read by        *)
(* resize and copy (a header no source of the model can fill fails).       *)
X_READVECTOR_copy(c, fr) ==
    IF ~SizeCheck(fr.hdr) \/ ~IsSmall(fr.hdr)
    THEN {[c |-> c, f |-> fr, r |-> Throw]}
    ELSE ResizeAndRead(c, fr, fr.hdr)

(* X_READVECTOR(vec) *)
X_READVECTOR(c, fr) ==
    IF fr.direct
    THEN IF ~SizeCheck(fr.hdr) THEN {[c |-> c, f |-> fr, r |-> Throw]}
         ELSE {BindPointer(c, fr, fr.hdr)}
    ELSE READVECTOR(c, fr)

(* X_READXBVECTOR without size *= 4 on its direct branch *)
X_READXBVECTOR_noscale(c, fr) ==
    IF fr.direct
    THEN IF ~SizeCheck(fr.hdr) THEN {[c |-> c, f |-> fr, r |-> Throw]}
         ELSE {BindPointer(c, fr, fr.hdr)}
    ELSE READXBVECTOR(c, fr)

(* X_READXBVECTOR(vec) *)
X_READXBVECTOR(c, fr) ==
    IF fr.direct
    THEN IF ~SizeCheck(fr.hdr) THEN {[c |-> c, f |-> fr, r |-> Throw]}
         ELSE {BindPointer(c, fr, U64Mul4(fr.hdr))}
    ELSE READXBVECTOR(c, fr)


---------------------------------------------------------------------------
(* Inputs *)

(* Length headers: small counts, the last valid value, the ceiling, one    *)
(* above it, and -1 read as unsigned.                                      *)
SmallHeaders == {U64Of(n) : n \in 0..(MemLen - 1)}
Headers ==
    SmallHeaders \cup
    {U64(0, Limb - 1, Limb - 1), Ceiling, U64(1, 0, 1), U64Max}

(* A sequential source holds its items: its header is the count of a       *)
(* vector that fits in memory, or a corrupt one.                           *)
SeqHeaders == {h \in Headers : IsSmall(h) \/ ~SizeCheck(h)}

Readers ==
    {Reader(TRUE, h) : h \in Headers} \cup {Reader(FALSE, h) : h \in SeqHeaders}

FillVals == {0, 77}
PushVals == {77}
Indexes == 0..MaxResize

(* The aliases a caller may bind: a pointer into the region with the count *)
(* of whole elements it has room for, or nullptr with no elements.         *)
Aliases(m, w) ==
    {[ptr |-> NULL, size |-> 0, capacity |-> 0]} \cup
    {[ptr |-> SrcPtr(o), size |-> n, capacity |-> k] :
        o \in {0, w}, n \in 0..(Len(m) \div w), k \in 0..(Len(m) \div w)}

ValidAliases(m, w) ==
    {a \in Aliases(m, w) :
        a.ptr = NULL \/
        (a.ptr.off + a.size * w <= Len(m)
            /\ a.capacity \in {a.size, (Len(m) - a.ptr.off) \div w})}

(* The arguments a caller gives setBuffer: those aliases, and one bind    *)
(* whose capacity is smaller than its size, which the signature admits.    *)
BindArgs(m, w) ==
    ValidAliases(m, w) \cup {[ptr |-> SrcPtr(0), size |-> 1, capacity |-> 0]}

---------------------------------------------------------------------------
(* State *)

Ret(op, r, ptr, a1, a2) ==
    [op |-> op, kind |-> r.kind, val |-> r.val, ptr |-> ptr, a1 |-> a1, a2 |-> a2]

Set(c) ==
    /\ buffer_' = c.buffer_
    /\ size_' = c.size_
    /\ capacity_' = c.capacity_
    /\ v_' = c.v_
    /\ heap' = c.heap
    /\ everOwned' = (everOwned \/ c.v_ # 0)

(* One instance, not destroyed, not copied, and nothing deleted *)
NoCopy == [buffer_ |-> NULL, size_ |-> 0, capacity_ |-> 0, v_ |-> -1]
NewLife ==
    [destroyed |-> FALSE, copy |-> NoCopy, copyDestroyed |-> FALSE,
     freed |-> <<>>]

(* The index before any wrapper of the C API is called: no direct map, no *)
(* search parameters created, no handle passed, nothing forwarded.         *)
NoCApi ==
    [direct_map_type |-> 0, sp |-> "none", handle |-> "none",
     forwarded |-> "none"]

(* The process is running and the container exists: no call has aborted   *)
(* or crashed the process and the destructor has not run.                  *)
Alive == ret.kind \in {"ok", "throw"} /\ ~life.destroyed

Init ==
    /\ W \in ElemWidths
    /\ mem \in Mems
    /\ \E c \in {CtorDefault(mem, W)}
            \cup {CtorAlias(mem, W, a.ptr, a.size, a.capacity) :
                    a \in ValidAliases(mem, W)}
            \cup {CtorAdopt(mem, W, v) : v \in {<<>>, <<5, 6>>}} :
        /\ buffer_ = c.buffer_
        /\ size_ = c.size_
        /\ capacity_ = c.capacity_
        /\ v_ = c.v_
        /\ heap = c.heap
        /\ everOwned = (c.v_ # 0)
        /\ ref = Contents(c)
    /\ other = <<8, 9>>
    /\ f = Reader(FALSE, U64Of(0))
    /\ ret = Ret("ctor", Ok(0), NULL, 0, 0)
    /\ nops = 0
    /\ life = NewLife
    /\ capi = NoCApi

(* v_ points to a vector that was already deleted through a copy *)
Dangling == v_ # 0 /\ \E k \in DOMAIN life.freed : life.freed[k] = v_

Mutator ==
    /\ Alive
    /\ ~Dangling
    /\ nops < MaxOps
    /\ nops' = nops + 1
    /\ UNCHANGED <<life, capi>>

SetBuffer ==
    /\ Mutator
    /\ \E a \in BindArgs(mem, W) :
        LET b == setBuffer(Cur, a.ptr, a.size, a.capacity) IN
        /\ Set(b.c)
        /\ ret' = Ret("setBuffer", b.r, a.ptr, a.size, a.capacity)
        /\ ref' = Contents(b.c)
    /\ UNCHANGED <<other, mem, W, f>>

Resize ==
    /\ Mutator
    /\ \E n \in 0..MaxResize, val \in FillVals :
        \E m \in resize(Cur, n, val) :
            /\ Set(m.c)
            /\ ret' = Ret("resize", m.r, NULL, n, val)
            /\ ref' = IF m.r.kind = "ok" THEN VecResize(ref, n, val) ELSE ref
    /\ UNCHANGED <<other, mem, W, f>>

PushBack ==
    /\ Mutator
    /\ \E value \in PushVals :
        \E m \in push_back(Cur, value) :
            /\ Set(m.c)
            /\ ret' = Ret("push_back", m.r, NULL, value, 0)
            /\ ref' = IF m.r.kind = "ok" THEN Append(ref, value) ELSE ref
    /\ UNCHANGED <<other, mem, W, f>>

PopBack ==
    /\ Mutator
    /\ \E m \in pop_back(Cur) :
        /\ Set(m.c)
        /\ ret' = Ret("pop_back", m.r, NULL, 0, 0)
        /\ ref' = IF m.r.kind = "ok" /\ Len(ref) > 0
                  THEN SubSeq(ref, 1, Len(ref) - 1) ELSE ref
    /\ UNCHANGED <<other, mem, W, f>>

Swap ==
    /\ Mutator
    /\ \E m \in swap(Cur, other) :
        /\ Set(m.c)
        /\ other' = m.other
        /\ ret' = Ret("swap", m.r, NULL, 0, 0)
        /\ ref' = IF m.r.kind = "ok" THEN other ELSE ref
    /\ UNCHANGED <<mem, W, f>>

Clear ==
    /\ Mutator
    /\ Set(clear(Cur))
    /\ ret' = Ret("clear", Ok(0), NULL, 0, 0)
    /\ ref' = <<>>
    /\ UNCHANGED <<other, mem, W, f>>

XReadVector ==
    /\ Mutator
    /\ \E fr \in Readers :
        \E m \in X_READVECTOR(Cur, fr) :
            /\ Set(m.c)
            /\ f' = m.f
            /\ ret' = Ret("X_READVECTOR", m.r, m.f.ptr, 0, 0)
            /\ ref' = Contents(m.c)
    /\ UNCHANGED <<other, mem, W>>

(* The scaled field is the vector of bytes that holds the codes: its size  *)
(* on disk counts units of 4 bytes.                                        *)
XReadXBVector ==
    /\ Mutator
    /\ W = 1
    /\ \E fr \in Readers :
        \E m \in X_READXBVECTOR(Cur, fr) :
            /\ Set(m.c)
            /\ f' = m.f
            /\ ret' = Ret("X_READXBVECTOR", m.r, m.f.ptr, 0, 0)
            /\ ref' = Contents(m.c)
    /\ UNCHANGED <<other, mem, W>>

Reads ==
    UNCHANGED <<buffer_, size_, capacity_, v_, heap, other, mem, W, f, nops,
                everOwned, ref, life, capi>>

Size ==
    /\ Alive
    /\ ret' = Ret("size", Ok(size(Cur)), NULL, 0, 0)
    /\ Reads

IsEmpty ==
    /\ Alive
    /\ ret' = Ret("empty", Ok(IF empty(Cur) THEN 1 ELSE 0), NULL, 0, 0)
    /\ Reads

Capacity ==
    /\ Alive
    /\ \E n \in capacity(Cur) : ret' = Ret("capacity", Ok(n), NULL, 0, 0)
    /\ Reads

(* A call of at() that promotes the container before reading *)
At_mutating ==
    /\ Alive
    /\ \E i \in Indexes : \E m \in mutate(Cur) : \E r \in at(m.c, i) :
        /\ Set(m.c)
        /\ ret' = Ret("at", r, NULL, i, 0)
    /\ UNCHANGED <<other, mem, W, f, nops, ref, life, capi>>

At ==
    /\ Alive
    /\ \E i \in Indexes : \E r \in at(Cur, i) : ret' = Ret("at", r, NULL, i, 0)
    /\ Reads

Index ==
    /\ Alive
    /\ \E i \in Indexes : \E r \in index_op(Cur, i) :
        ret' = Ret("operator[]", r, NULL, i, 0)
    /\ Reads

Data ==
    /\ Alive
    /\ ret' = Ret("data", Ok(0), data(Cur), 0, 0)
    /\ Reads

Front ==
    /\ Alive
    /\ \E r \in front(Cur) : ret' = Ret("front", r, NULL, 0, 0)
    /\ Reads

Back ==
    /\ Alive
    /\ \E r \in back(Cur) : ret' = Ret("back", r, NULL, 0, 0)
    /\ Reads

Next ==
    \/ SetBuffer
    \/ Resize
    \/ PushBack
    \/ PopBack
    \/ Swap
    \/ Clear
    \/ XReadVector
    \/ XReadXBVector
    \/ Size
    \/ IsEmpty
    \/ Capacity
    \/ At
    \/ Index
    \/ Data
    \/ Front
    \/ Back

Spec == Init /\ [][Next]_vars

---------------------------------------------------------------------------
(* The container used as a vector: the mutating calls and the observers,   *)
(* next to a plain std::vector<T> that starts with the same contents and   *)
(* is given the same calls.                                                *)

NextVec ==
    \/ Resize
    \/ PushBack
    \/ PopBack
    \/ Swap
    \/ Clear
    \/ Size
    \/ IsEmpty
    \/ At

SpecVec == Init /\ [][NextVec]_vars

---------------------------------------------------------------------------
(* The lifetime of the container: the mutating calls, the implicit copy    *)
(* constructor and the destructor of each instance.                        *)

(* The steps below leave the container's own fields alone *)
LifeStep ==
    UNCHANGED <<buffer_, size_, capacity_, v_, heap, other, mem, W, f, nops,
                everOwned, ref, capi>>

(* XBufVector b(a): the class declares no copy constructor, so the         *)
(* compiler's copies each field, the pointer v_ included.                  *)
CopyConstruct ==
    /\ Alive
    /\ life.copy = NoCopy
    /\ life' = [life EXCEPT !.copy = [buffer_ |-> buffer_, size_ |-> size_,
                                      capacity_ |-> capacity_, v_ |-> v_]]
    /\ ret' = Ret("copy", Ok(0), NULL, 0, 0)
    /\ LifeStep

(* delete p: deleting a vector a second time is undefined; the process     *)
(* dies or goes on with a corrupted heap.                                  *)
Delete(p) ==
    IF p = 0 THEN {[freed |-> life.freed, r |-> Ok(0)]}
    ELSE IF \E k \in DOMAIN life.freed : life.freed[k] = p
    THEN {[freed |-> Append(life.freed, p), r |-> Crash],
          [freed |-> Append(life.freed, p),
           r |-> [kind |-> "corrupt", val |-> 0]]}
    ELSE {[freed |-> Append(life.freed, p), r |-> Ok(0)]}

(* ~XBufVector() of the container *)
Destroy ==
    /\ Alive
    /\ \E d \in Delete(v_) :
        /\ life' = [life EXCEPT !.destroyed = TRUE, !.freed = d.freed]
        /\ ret' = Ret("~XBufVector", d.r, NULL, 0, 0)
    /\ LifeStep

(* ~XBufVector() of the copy *)
DestroyCopy ==
    /\ ret.kind \in {"ok", "throw"}
    /\ life.copy # NoCopy
    /\ ~life.copyDestroyed
    /\ \E d \in Delete(life.copy.v_) :
        /\ life' = [life EXCEPT !.copyDestroyed = TRUE, !.freed = d.freed]
        /\ ret' = Ret("~XBufVector(copy)", d.r, NULL, 0, 0)
    /\ LifeStep

NextLife ==
    \/ SetBuffer
    \/ Resize
    \/ PushBack
    \/ PopBack
    \/ Swap
    \/ Clear
    \/ CopyConstruct
    \/ Destroy
    \/ DestroyCopy

SpecLife == Init /\ [][NextLife]_vars


---------------------------------------------------------------------------
(* The wrappers of c_api/IndexIVF_c_ex.cpp.  The index operations they     *)
(* forward to are outside this code: each either completes or throws.      *)

(* faiss::DirectMap::Type as the int the caller passes *)
DirectMapTypes == 0..2

(* FaissIDSelector* sel: nullptr or a selector *)
Selectors == {"nullptr", "sel"}

(* FaissIndex* / FaissIndexIVF* index: nullptr or an IVF index *)
Handles == {"null", "ivf"}

(* How the forwarded operation ends *)
Forwarded == {"completes", "FaissException", "std::exception", "other"}

(* The non-zero status codes *)
ErrorCodes == {-4, -2, -1}

(* CATCH_AND_HANDLE of macros_impl.h after a try block that ended as fwd:  *)
(* every exception is caught and becomes a non-zero code, and a block that *)
(* completes falls through to return 0.                                    *)
CATCH_AND_HANDLE(fwd) ==
    IF fwd = "completes" THEN {Ok(0)} ELSE {Ok(code) : code \in ErrorCodes}

(* reinterpret_cast<IndexIVF*>(index)->method(...): a call through nullptr *)
(* is undefined, the process dies or goes on in a state the model does not *)
(* follow; no exception is thrown for CATCH_AND_HANDLE to catch.           *)
NullCall == {Crash, [kind |-> "corrupt", val |-> 0]}

(* One call of a wrapper: r is how the call ends, and the index takes the  *)
(* effect of an operation that completed.                                  *)
Wrapper(op, handle, fwd, r, idx) ==
    /\ ret' = Ret(op, r, NULL, 0, 0)
    /\ capi' = [(IF r = Ok(0) THEN idx ELSE capi) EXCEPT
                    !.handle = handle,
                    !.forwarded = IF handle = "null" THEN "none" ELSE fwd]
    /\ UNCHANGED <<buffer_, size_, capacity_, v_, heap, other, mem, W, f, nops,
                   everOwned, ref, life>>

(* faiss_IndexIVF_set_direct_map whose try block has no handler: an        *)
(* exception leaves the function.                                          *)
faiss_IndexIVF_set_direct_map_nocatch ==
    /\ Alive
    /\ \E index \in Handles, direct_map_type \in DirectMapTypes, fwd \in Forwarded :
           \E r \in IF index = "null" THEN NullCall ELSE IF fwd = "completes" THEN {Ok(0)}
                     ELSE {Throw} :
               Wrapper("faiss_IndexIVF_set_direct_map", index, fwd, r,
                       [capi EXCEPT !.direct_map_type = direct_map_type])

(* int faiss_IndexIVF_set_direct_map(index, direct_map_type) *)
faiss_IndexIVF_set_direct_map ==
    /\ Alive
    /\ \E index \in Handles, direct_map_type \in DirectMapTypes, fwd \in Forwarded :
           \E r \in IF index = "null" THEN NullCall ELSE CATCH_AND_HANDLE(fwd) :
               Wrapper("faiss_IndexIVF_set_direct_map", index, fwd, r,
                       [capi EXCEPT !.direct_map_type = direct_map_type])

(* int faiss_SearchParametersIVF_new_with_sel(p_sp, sel): the forwarded    *)
(* operation is new SearchParametersIVF, which may throw std::bad_alloc;   *)
(* it takes no index.                                                      *)
faiss_SearchParametersIVF_new_with_sel ==
    /\ Alive
    /\ \E sel \in Selectors, fwd \in {"completes", "std::exception"} :
           \E r \in CATCH_AND_HANDLE(fwd) :
               Wrapper("faiss_SearchParametersIVF_new_with_sel", "ivf", fwd, r,
                       [capi EXCEPT !.sp = sel])

(* int faiss_Search_closest_eligible_centroids(index, ...): assert(index_ivf) *)
(* aborts a debug build on nullptr and is absent from an NDEBUG build,      *)
(* which then calls through nullptr.                                        *)
faiss_Search_closest_eligible_centroids ==
    /\ Alive
    /\ \E index \in Handles, fwd \in Forwarded :
           \E r \in IF index = "null" THEN {AssertFail} \cup NullCall
                     ELSE CATCH_AND_HANDLE(fwd) :
               Wrapper("faiss_Search_closest_eligible_centroids", index, fwd, r,
                       capi)

(* int faiss_IndexIVF_search_preassigned_with_params(index, ...) *)
faiss_IndexIVF_search_preassigned_with_params ==
    /\ Alive
    /\ \E index \in Handles, fwd \in Forwarded :
           \E r \in IF index = "null" THEN NullCall ELSE CATCH_AND_HANDLE(fwd) :
               Wrapper("faiss_IndexIVF_search_preassigned_with_params", index,
                       fwd, r, capi)

(* int faiss_IndexIVF_compute_distance_to_codes_for_list(index, ...): the  *)
(* try block itself returns 0 when the operation completes.                *)
faiss_IndexIVF_compute_distance_to_codes_for_list ==
    /\ Alive
    /\ \E index \in Handles, fwd \in Forwarded :
           \E r \in IF index = "null" THEN NullCall
                     ELSE IF fwd = "completes" THEN {Ok(0)}
                     ELSE CATCH_AND_HANDLE(fwd) :
               Wrapper("faiss_IndexIVF_compute_distance_to_codes_for_list", index,
                       fwd, r, capi)

NextCApi ==
    \/ faiss_IndexIVF_set_direct_map
    \/ faiss_SearchParametersIVF_new_with_sel
    \/ faiss_Search_closest_eligible_centroids
    \/ faiss_IndexIVF_search_preassigned_with_params
    \/ faiss_IndexIVF_compute_distance_to_codes_for_list

SpecCApi == Init /\ [][NextCApi]_vars

---------------------------------------------------------------------------
(* Vocabulary of the properties *)

(* This step is one call of the mutating operation op *)
Called(op) == nops' = nops + 1 /\ ret'.op = op

(* The i-th T of the source as seen from pointer p, i counted from 0 *)
SrcElem(p, i) == Decode(mem, p.off + i * W, W)

Min(a, b) == IF a <= b THEN a ELSE b

(* The size a mutating call must leave behind on an alias of n elements *)
SizeAfter(n) ==
    IF ret'.op = "resize" THEN ret'.a1
    ELSE IF ret'.op = "push_back" THEN n + 1
    ELSE n - 1

---------------------------------------------------------------------------
(* C1 - Promotion correctness: one mutating call (resize, push_back, or    *)
(* pop_back on a non-empty alias) on a container Aliased onto a source     *)
(* buffer of N elements leaves it Owned with buffer_, size_ and capacity_  *)
(* cleared, its first min(N, new size) elements equal to the aliased       *)
(* values in order, and every byte of the source as it was.                *)
C1_PromotionCorrect ==
    [][ ( /\ Aliased(Cur) /\ AliasInRegion(Cur)
          /\ \/ Called("resize")
             \/ Called("push_back")
             \/ Called("pop_back") /\ size_ > 0 )
        => /\ ret'.kind = "ok"
           /\ Owned(Cur')
           /\ buffer_' = NULL /\ size_' = 0 /\ capacity_' = 0
           /\ size(Cur') = SizeAfter(size_)
           /\ \A i \in 0..(Min(size_, size(Cur')) - 1) :
                 at(Cur', i) = {Ok(SrcElem(buffer_, i))}
           /\ mem' = mem ]_vars

(* An alias of the first two bytes was promoted by push_back(77) *)
C1_Witness ==
    /\ ret.op = "push_back" /\ ret.kind = "ok" /\ nops = 1
    /\ W = 1 /\ Owned(Cur) /\ Len(heap) = 1
    /\ Vec(Cur) = <<mem[1], mem[2], 77>>

(* C2 - Alias fidelity: setBuffer(buffer, N, N) on a container that is not *)
(* Owned succeeds; afterwards size() is N, at(i) and operator[](i) return  *)
(* the source's i-th value for every i < N, data() is the bound pointer,   *)
(* and no owned storage exists or was allocated.                           *)
C2_AliasFidelity ==
    [][ ( v_ = 0 /\ Called("setBuffer") /\ ret'.a1 = ret'.a2 )
        => /\ ret'.kind = "ok"
           /\ size(Cur') = ret'.a1
           /\ \A i \in 0..(ret'.a1 - 1) :
                 /\ at(Cur', i) = {Ok(SrcElem(ret'.ptr, i))}
                 /\ index_op(Cur', i) = {Ok(SrcElem(ret'.ptr, i))}
           /\ data(Cur') = ret'.ptr
           /\ v_' = 0 /\ heap' = heap ]_vars

(* A bind of two or more elements at a non-zero offset of the source *)
C2_Witness ==
    /\ ret.op = "setBuffer" /\ ret.kind = "ok"
    /\ ret.a1 = ret.a2 /\ ret.a1 >= 2 /\ ret.ptr.off > 0
    /\ Aliased(Cur)

(* C3 - Bind on an Owned container is rejected without effect: setBuffer   *)
(* on a container with v_ non-null signals an error and leaves the owned   *)
(* contents, the size and the mode as they were.                           *)
C3_BindOnOwnedRejected ==
    [][ ( v_ # 0 /\ Called("setBuffer") )
        => /\ ret'.kind = "throw"
           /\ UNCHANGED <<buffer_, size_, capacity_, v_, heap>>
           /\ size(Cur') = size(Cur) /\ Owned(Cur') ]_vars

(* A bind was rejected on a container that owns elements *)
C3_Witness ==
    /\ ret.op = "setBuffer" /\ ret.kind = "throw"
    /\ Owned(Cur) /\ Len(Vec(Cur)) > 0


(* C4 - One-way promotion as claimed: in no state after one in which the   *)
(* container was Owned is it Aliased.                                      *)
C4_NeverAliasedAfterOwned == everOwned => ~Aliased(Cur)

(* C4 as amended - Owned mode is left only through clear(), which leaves   *)
(* the container Empty: no call takes an Owned container to Aliased, and   *)
(* the container can be Aliased again only after a clear().                *)
C4_OwnedUntilClear ==
    [][ Owned(Cur) => (Owned(Cur') \/ (Called("clear") /\ Empty(Cur'))) ]_vars

(* An alias was promoted by a mutating call and the container then cleared *)
C4_Witness ==
    /\ ret.op = "clear" /\ nops = 2 /\ Len(heap) = 1
    /\ Empty(Cur) /\ everOwned

(* C5 - Clear resets cleanly: after clear() from any mode the container is *)
(* Empty, size() is 0, empty() is true, at(0) signals Out-Of-Range, and a  *)
(* second clear() changes nothing.                                         *)
C5_ClearResets ==
    ret.op = "clear" =>
        /\ ret.kind = "ok"
        /\ Empty(Cur)
        /\ size(Cur) = 0
        /\ empty(Cur)
        /\ at(Cur, 0) = {Throw}
        /\ clear(Cur) = Cur

(* clear() was called on the Owned container the adopting constructor made *)
C5_Witness ==
    /\ ret.op = "clear" /\ nops = 1 /\ Len(heap) = 1 /\ everOwned

(* C6 - front() and back() as claimed: whenever size() > 0, front() is the *)
(* element at(0), back() is the element at(size() - 1), and neither trips  *)
(* its assertion.                                                          *)
C6_FrontBackDefined ==
    /\ (ret.op = "front" /\ size(Cur) > 0) =>
           (ret.kind = "ok" /\ at(Cur, 0) = {Ok(ret.val)})
    /\ (ret.op = "back" /\ size(Cur) > 0) =>
           (ret.kind = "ok" /\ at(Cur, size(Cur) - 1) = {Ok(ret.val)})

(* C7 - Bound rejection: on the direct path of both macros a header that   *)
(* is 2^40, above 2^40, or a negative value read as unsigned makes the     *)
(* load throw before a pointer is requested from the source and before     *)
(* setBuffer runs: the container and the heap are as they were.            *)
C7_BoundRejection ==
    [][ ( /\ Called("X_READVECTOR") \/ Called("X_READXBVECTOR")
          /\ f'.direct
          /\ ~U64Less(f'.hdr, Ceiling) )
        => /\ ret'.kind = "throw"
           /\ f'.requested = NoRequest /\ f'.ptr = NULL /\ f'.rp = 0
           /\ UNCHANGED <<buffer_, size_, capacity_, v_, heap>> ]_vars

(* The scaled load rejected the header -1 on a container bound to an alias *)
C7_Witness ==
    /\ ret.op = "X_READXBVECTOR" /\ ret.kind = "throw"
    /\ f.direct /\ f.hdr = U64Max
    /\ Aliased(Cur) /\ size_ > 0

(* C8 - Zero-copy load: the direct load of an element-count field with a   *)
(* valid header L, from a source that holds the L elements, into an Empty  *)
(* container leaves it Aliased with size() = L and data() equal to the     *)
(* pointer the source returned for the position after the header; nothing  *)
(* is allocated or copied.                                                 *)
C8_ZeroCopyLoad ==
    [][ ( /\ Empty(Cur)
          /\ Called("X_READVECTOR")
          /\ f'.direct
          /\ IsSmall(f'.hdr) /\ ToNat(f'.hdr) * W <= Len(mem) )
        => /\ ret'.kind = "ok"
           /\ Aliased(Cur')
           /\ size(Cur') = ToNat(f'.hdr)
           /\ f'.ptr = SrcPtr(0)
           /\ data(Cur') = f'.ptr
           /\ v_' = 0 /\ heap' = heap /\ mem' = mem ]_vars

(* A direct load of two 2-byte elements bound the container *)
C8_Witness ==
    /\ ret.op = "X_READVECTOR" /\ ret.kind = "ok" /\ nops = 1
    /\ f.direct /\ f.hdr = U64Of(2) /\ W = 2
    /\ Aliased(Cur) /\ heap = <<>>

(* The container a direct load of the header h makes of an Empty one *)
DirectLoads(op, h) ==
    IF op = "X_READVECTOR"
    THEN X_READVECTOR(CtorDefault(mem, W), Reader(TRUE, h))
    ELSE X_READXBVECTOR(CtorDefault(mem, W), Reader(TRUE, h))

(* C9 - Load-path equivalence: a load from a sequential-only source that   *)
(* succeeds leaves the container Owned, and its size() and every at(i)     *)
(* equal those of the container the direct load of the same header and     *)
(* bytes produces, for the element-count field and for the scaled field.   *)
C9_LoadPathEquivalence ==
    ( /\ ret.op \in {"X_READVECTOR", "X_READXBVECTOR"}
      /\ ~f.direct /\ ret.kind = "ok" )
    => /\ Owned(Cur)
       /\ \A d \in DirectLoads(ret.op, f.hdr) :
             /\ d.r.kind = "ok"
             /\ Aliased(d.c)
             /\ size(d.c) = size(Cur)
             /\ \A i \in 0..(size(Cur) - 1) : at(d.c, i) = at(Cur, i)

(* A sequential load of the scaled field with header 1 read four bytes *)
C9_Witness ==
    /\ ret.op = "X_READXBVECTOR" /\ ret.kind = "ok" /\ ~f.direct
    /\ f.hdr = U64Of(1) /\ size(Cur) = 4

(* 4 * h for the valid headers of the model, written out *)
FourTimes(h) ==
    IF IsSmall(h) THEN U64Of(4 * ToNat(h)) ELSE U64(3, Limb - 1, Limb - 4)

C11_CheckedAccess ==
    [][ ( Alive /\ ret'.op = "at" )
        => IF ret'.a1 >= size(Cur)
           THEN /\ ret'.kind = "throw"
                /\ UNCHANGED <<buffer_, size_, capacity_, v_, heap, mem>>
           ELSE /\ ret'.kind # "throw"
                /\ Owned(Cur)
                     => ret'.kind = "ok" /\ ret'.val = Vec(Cur)[ret'.a1 + 1]
                /\ ( Aliased(Cur) /\ buffer_.region = "src"
                       /\ InRegion(mem, buffer_.off + ret'.a1 * W, W) )
                     => ret'.kind = "ok"
                        /\ ret'.val = SrcElem(buffer_, ret'.a1) ]_vars

(* at(size()) was refused on an alias of two elements *)
C11_Witness ==
    /\ ret.op = "at" /\ ret.kind = "throw" /\ ret.a1 = 2
    /\ Aliased(Cur) /\ size_ = 2 /\ AliasInRegion(Cur)

(* C12 - swap exchanges contents: on a container showing the contents C    *)
(* (owned, or aliased onto the source) and a caller's vector holding O,    *)
(* swap(other) leaves the container Owned with contents O and other        *)
(* holding C, writes no byte of the source, and a second swap(other) gives *)
(* both their contents back.                                               *)
C12_SwapExchanges ==
    [][ ( Alive /\ Called("swap") /\ AliasInRegion(Cur) )
        => /\ ret'.kind = "ok"
           /\ Owned(Cur')
           /\ Vec(Cur') = other
           /\ other' = Contents(Cur)
           /\ mem' = mem
           /\ \A m \in swap(Cur', other') :
                 /\ m.r.kind = "ok"
                 /\ Owned(m.c)
                 /\ Vec(m.c) = Contents(Cur)
                 /\ m.other = other ]_vars

(* An alias of the first two bytes was swapped with the caller's <<8, 9>> *)
C12_Witness ==
    /\ ret.op = "swap" /\ ret.kind = "ok" /\ nops = 1
    /\ W = 1 /\ Owned(Cur) /\ Len(heap) = 1
    /\ Vec(Cur) = <<8, 9>>
    /\ other = <<mem[1], mem[2]>>

(* C16 - Mode exclusivity: in every state reached through the              *)
(* constructors and the methods, the alias attributes and the owned        *)
(* storage are never populated together: whenever v_ is non-null, buffer_  *)
(* is null and size_ and capacity_ are 0.                                  *)
C16_ModeExclusive ==
    v_ # 0 => buffer_ = NULL /\ size_ = 0 /\ capacity_ = 0

(* A non-empty alias was promoted by a mutating call *)
C16_Witness ==
    /\ Owned(Cur) /\ nops >= 1 /\ Len(heap) = 1
    /\ ret.op = "push_back" /\ ret.kind = "ok"
    /\ W = 1 /\ Vec(Cur) = <<mem[1], mem[2], 77>>
    /\ buffer_ = NULL /\ size_ = 0 /\ capacity_ = 0

(* C19 - Read accessors have no effect on storage: size(), capacity(),     *)
(* empty(), at(i), operator[](i) and data() leave the mode, the alias      *)
(* attributes, the owned storage and the source memory as they were; none  *)
(* of them promotes an Aliased container to Owned.                         *)
C19_ReadsNoEffect ==
    [][ ret'.op \in {"size", "capacity", "empty", "at", "operator[]", "data"}
        => /\ UNCHANGED <<buffer_, size_, capacity_, v_, heap, mem>>
           /\ Aliased(Cur) => Aliased(Cur') ]_vars

(* at(1) read the second element of an alias, which is still an alias *)
C19_Witness ==
    /\ ret.op = "at" /\ ret.kind = "ok" /\ ret.a1 = 1
    /\ Aliased(Cur) /\ size_ >= 2 /\ heap = <<>>
    /\ ret.val = Decode(mem, buffer_.off + W, W)

(* C14 - Requested span of an element-count field: after a direct          *)
(* X_READVECTOR of a field with header L into a container of W-byte        *)
(* elements, the span requested from the source is exactly L * W bytes,    *)
(* the alias of L elements lies inside that span, and the source's read    *)
(* position is where the sequential read of the same field ends, L * W     *)
(* bytes after the header.                                                 *)
C14_RequestedSpan ==
    ( ret.op = "X_READVECTOR" /\ ret.kind = "ok" /\ f.direct )
        => /\ f.requested = U64Of(size_ * W)
           /\ buffer_ = f.ptr
           /\ buffer_.off + size_ * W <= f.ptr.off + ToNat(f.requested)
           /\ f.rp = size_ * W

(* C15 - Alias bounds: in every state in which the container is Aliased,   *)
(* however it was bound, the bound length is at most the bound capacity    *)
(* and both are below the sanity ceiling 2^40.                             *)
C15_AliasBounds ==
    Aliased(Cur)
        => /\ size_ <= capacity_
           /\ U64Less(U64Of(size_), Ceiling)
           /\ U64Less(U64Of(capacity_), Ceiling)

(* How many times the vector id was deleted *)
Deletes(id) == Cardinality({k \in DOMAIN life.freed : life.freed[k] = id})

(* C17 - Owned storage is released: with a single instance, every vector   *)
(* the container allocated or adopted is either the one v_ still points to *)
(* or has been deleted exactly once, so clear() on an Owned container      *)
(* deletes its vector and after destruction every vector has been deleted  *)
(* exactly once.                                                           *)
C17_StorageReleased ==
    life.copy = NoCopy
        => \A id \in 1..Len(heap) :
              IF id = v_ /\ ~life.destroyed
              THEN Deletes(id) = 0
              ELSE Deletes(id) = 1

(* C18 - Exclusive ownership: a container and its copy never point to the  *)
(* same owned vector, and no vector is deleted twice when the instances    *)
(* are destroyed.                                                          *)
C18_ExclusiveOwnership ==
    /\ ( life.copy # NoCopy /\ v_ # 0 ) => life.copy.v_ # v_
    /\ \A id \in 1..Len(heap) : Deletes(id) <= 1

(* The last call was a call of a wrapper of IndexIVF_c_ex.cpp *)
WrapperCalled ==
    ret.op \in {"faiss_IndexIVF_set_direct_map",
                "faiss_SearchParametersIVF_new_with_sel",
                "faiss_Search_closest_eligible_centroids",
                "faiss_IndexIVF_search_preassigned_with_params",
                "faiss_IndexIVF_compute_distance_to_codes_for_list"}

(* The call came back with a status code: 0 exactly when the forwarded     *)
(* operation completed.                                                    *)
ReturnedCode ==
    /\ ret.kind = "ok"
    /\ capi.forwarded = "completes" => ret.val = 0
    /\ capi.forwarded # "completes" => ret.val # 0

C20_VectorEquivalence ==
    Alive
        => /\ size(Cur) = Len(ref)
           /\ empty(Cur) = (Len(ref) = 0)
           /\ \A i \in Indexes \cup (0..Len(ref)) : at(Cur, i) = VecAt(ref, i)
           /\ ret.op = "size" => ret.val = Len(ref)
           /\ ret.op = "empty" => ret.val = (IF Len(ref) = 0 THEN 1 ELSE 0)
           /\ ret.op = "at" => [kind |-> ret.kind, val |-> ret.val]
                                   \in VecAt(ref, ret.a1)

(* An alias of two bytes was promoted by push_back(77), a later pop_back   *)
(* found it Owned, and the container shows the two bytes again.            *)
C20_Witness ==
    /\ nops = 2 /\ ret.op = "pop_back" /\ ret.kind = "ok"
    /\ W = 1 /\ Owned(Cur) /\ Len(heap) = 1
    /\ ref = <<mem[1], mem[2]>>
    /\ Vec(Cur) = ref

===========================================================================
